---- MODULE Spec2Model ----
(***************************************************************************)
(* SKU+ backend (GSOData/app-sku): the expiration-status classifier        *)
(* (SKU.get_status), the AlertConfig write path (ConfiguracaoAlerta-       *)
(* Serializer behind ConfiguracaoAlertaViewSet) and the spreadsheet        *)
(* importers (EstoqueImportService), over the relational store declared in *)
(* core/models.py.                                                         *)
(*                                                                         *)
(* Dates are whole days counted from date.today(); a stored row is a       *)
(* record; a table with an auto-increment key and no Meta.ordering is a    *)
(* sequence in primary-key order.                                          *)
(***************************************************************************)
EXTENDS Integers, Sequences, FiniteSets, TLC

VARIABLES
    unidades,   \* table UnidadeNegocio: id -> row or NoUnidade
    logs,       \* table LogConsulta, rows in primary-key order
    comando,    \* a run of manage.py importar_estoque: position, file, caches, counts
    skus,       \* table SKU: (unidade_negocio, codigo_sku) -> row or NoSKU
    lotes,      \* table LoteValidade: (sku, numero_lote) -> row or NoLote
    configs,    \* table ConfiguracaoAlerta, rows in primary-key order
    ultimo,     \* the last get_status call and what it returned
    pc,         \* the import request: "idle", "rows" (in the row loop), "done"
    servico,    \* the EstoqueImportService instance: unit, counters, errors, warnings
    tipo,       \* "grade" (processar_grade_020502) or "contagens" (processar_contagens)
    arquivo,    \* the data rows of the uploaded file
    quadro,     \* the DataFrame read from it: its columns after mapping, its index
    idx,        \* the row loop's index (0-based, as df.iterrows() yields it)
    resultado,  \* the dict the call returned
    antes,      \* the SKU and lot tables when the call began
    anterior,   \* the call before this one: was it this file, and its counts
    suspensa    \* a second import call in progress, while the other one runs

importacao == <<pc, servico, tipo, arquivo, quadro, idx, resultado, antes, anterior>>
outros == <<unidades, logs, comando, suspensa>>
vars == <<unidades, logs, comando, skus, lotes, configs, ultimo, pc, servico, tipo, arquivo, quadro, idx, resultado,
          antes, anterior, suspensa>>

----------------------------------------------------------------------------
(* Bounds and input domains *)

MaxConfigs == 2                      \* rows of ConfiguracaoAlerta at one time
MaxLinhas == 2                       \* data rows of an uploaded file
MaxLogs == 2                         \* rows of LogConsulta
Unidades == {1, 2}                   \* UnidadeNegocio ids
SemUnidade == 0                      \* unidade = NULL (the global config)
Codigos == {"A"}
ChavesSKU == Unidades \X Codigos
NumerosAdmin == {"L1", "L2"}         \* lot numbers typed in the admin
DataImportada == 3                   \* the date a well-formed date cell holds
NumerosLote == NumerosAdmin \cup {"BASE", "VAL_3"}
Quantidades == {0, 1}
Limiares == {1, 2}                   \* threshold values a request carries
Hoje == 0                            \* date.today()
Datas == {-1, 0, 1, 2, 3, 46}

NoSKU == [existe |-> FALSE]
NoLote == [existe |-> FALSE]
Omitido == -1                        \* a key the request body does not carry

----------------------------------------------------------------------------
(* models.py: ConfiguracaoAlerta *)

default_dias_para_critico == 30
default_dias_para_pre_bloqueio == 45

ConfigRows ==
    [unidade : {SemUnidade} \cup Unidades,
     dias_para_critico : Nat,
     dias_para_pre_bloqueio : Nat,
     ativo : BOOLEAN]

(* models.py: SKU.lote_mais_proximo.  The rows of self.lotes with ativo and *)
(* qtd_estoque > 0; .order_by('data_validade').first() is one with the     *)
(* minimum date (the store picks among equal dates).                       *)
LotesDoSKU(k) == {n \in NumerosLote : lotes[<<k, n>>].existe}

Elegiveis_sem_filtro_qtd(k) ==
    {n \in LotesDoSKU(k) : lotes[<<k, n>>].ativo}

Elegiveis(k) ==
    {n \in LotesDoSKU(k) : lotes[<<k, n>>].ativo /\ lotes[<<k, n>>].qtd_estoque > 0}

lote_mais_proximo_desc(k) ==
    {n \in Elegiveis(k) :
        \A m \in Elegiveis(k) : lotes[<<k, n>>].data_validade >= lotes[<<k, m>>].data_validade}

lote_mais_proximo(k) ==
    {n \in Elegiveis(k) :
        \A m \in Elegiveis(k) : lotes[<<k, n>>].data_validade <= lotes[<<k, m>>].data_validade}

(* models.py: SKU.get_status, the configuration lookup (lines 341-356).    *)
ConfigsDaUnidade(u) == {i \in 1..Len(configs) : configs[i].unidade = u}

Globais_sem_filtro_ativo ==
    {i \in 1..Len(configs) : configs[i].unidade = SemUnidade}

GlobaisAtivas ==
    {i \in 1..Len(configs) : configs[i].unidade = SemUnidade /\ configs[i].ativo}

Primeiro(S) == CHOOSE i \in S : \A j \in S : i <= j

NoConfig == [existe |-> FALSE]
Dado(c) == [existe |-> TRUE, dias_para_critico |-> c.dias_para_critico,
            dias_para_pre_bloqueio |-> c.dias_para_pre_bloqueio]

config_efetiva(k, config) ==
    IF config.existe THEN config
    ELSE IF ConfigsDaUnidade(k[1]) # {}
         THEN Dado(configs[Primeiro(ConfigsDaUnidade(k[1]))])
    ELSE IF GlobaisAtivas # {}
         THEN Dado(configs[Primeiro(GlobaisAtivas)])
    ELSE NoConfig

status_default_critico == 30
status_default_pre_bloqueio == 45

dias_critico(cfg) == IF cfg.existe THEN cfg.dias_para_critico ELSE status_default_critico
dias_pre_bloqueio(cfg) ==
    IF cfg.existe THEN cfg.dias_para_pre_bloqueio ELSE status_default_pre_bloqueio

DataNula == -999                     \* None where a date is expected
SemDias == -1000                     \* dias_restantes = None
SemLoteRes == "None"                 \* lote = None

classificar_vencido_hoje(dias_restantes, dc, dp) ==
    IF dias_restantes <= 0 THEN <<"VENCIDO", "preto">>
    ELSE IF dias_restantes <= dc THEN <<"CRITICO", "vermelho">>
    ELSE IF dias_restantes <= dp THEN <<"PRE_BLOQUEIO", "amarelo">>
    ELSE <<"OK", "verde">>

classificar(dias_restantes, dc, dp) ==
    IF dias_restantes < 0 THEN <<"VENCIDO", "preto">>
    ELSE IF dias_restantes <= dc THEN <<"CRITICO", "vermelho">>
    ELSE IF dias_restantes <= dp THEN <<"PRE_BLOQUEIO", "amarelo">>
    ELSE <<"OK", "verde">>

(* The results get_status(config) can return for SKU k.                    *)
get_status(k, config) ==
    IF lote_mais_proximo(k) = {}
    THEN {[status |-> "SEM_ESTOQUE", cor |-> "cinza",
           dias_restantes |-> SemDias, lote |-> SemLoteRes]}
    ELSE LET cfg == config_efetiva(k, config)
         IN  {LET dias_restantes == lotes[<<k, n>>].data_validade - Hoje
                  sc == classificar(dias_restantes, dias_critico(cfg), dias_pre_bloqueio(cfg))
              IN  IF lotes[<<k, n>>].data_validade = DataNula
                  THEN [status |-> "TypeError", cor |-> "nenhuma",    \* None - date
                        dias_restantes |-> SemDias, lote |-> n]
                  ELSE [status |-> sc[1], cor |-> sc[2],
                        dias_restantes |-> dias_restantes, lote |-> n]
              : n \in lote_mais_proximo(k)}

----------------------------------------------------------------------------
(* serializers.py: ConfiguracaoAlertaSerializer *)

NoUnidade == [existe |-> FALSE, usada |-> FALSE]
UnidadeExcluida == [existe |-> FALSE, usada |-> TRUE]   \* its id is never given again
UnidadeRow == [existe |-> TRUE, usada |-> TRUE, ativo |-> TRUE]

(* unidade_id = PrimaryKeyRelatedField(queryset=UnidadeNegocio.objects.    *)
(* filter(ativo=True), required=False, allow_null=True)                    *)
unidade_id_valida(v) ==
    \/ v \in {Omitido, SemUnidade}
    \/ v \in Unidades /\ unidades[v].existe /\ unidades[v].ativo

validate_default_critico == 30
validate_default_pre_bloqueio == 45

Get(v, padrao) == IF v = Omitido THEN padrao ELSE v

Corpos ==
    [unidade_id : {Omitido, SemUnidade, 1},
     dias_para_critico : {Omitido} \cup Limiares,
     dias_para_pre_bloqueio : {Omitido} \cup Limiares,
     ativo : {"omitido", "false"}]

(* The bodies of the lot-centred specification: thresholds 1 and 2 only.   *)
CorposSimples ==
    {a \in Corpos : a.dias_para_critico = 1 /\ a.dias_para_pre_bloqueio = 2
                    /\ a.ativo = "omitido" /\ a.unidade_id # Omitido}

(* validate(attrs): TRUE when the body passes.                             *)
validate(attrs) ==
    LET dc == Get(attrs.dias_para_critico, validate_default_critico)
        dp == Get(attrs.dias_para_pre_bloqueio, validate_default_pre_bloqueio)
    IN  ~(dp <= dc)

GetAtivo(v, padrao) == IF v = "omitido" THEN padrao ELSE (v = "true")

(* The OneToOneField on unidade: at most one row per non-null unit.        *)
UnidadeLivre(u, exceto) ==
    u = SemUnidade \/ \A i \in 1..Len(configs) : i = exceto \/ configs[i].unidade # u

Remover(s, i) == [j \in 1..(Len(s) - 1) |-> IF j < i THEN s[j] ELSE s[j + 1]]

(* POST /configuracoes/ *)
ConfigCreate(attrs) ==
    /\ Len(configs) < MaxConfigs
    /\ validate(attrs)
    /\ unidade_id_valida(attrs.unidade_id)
    /\ LET nova == [unidade |-> Get(attrs.unidade_id, SemUnidade),
                    dias_para_critico |-> Get(attrs.dias_para_critico, default_dias_para_critico),
                    dias_para_pre_bloqueio |->
                        Get(attrs.dias_para_pre_bloqueio, default_dias_para_pre_bloqueio),
                    ativo |-> GetAtivo(attrs.ativo, TRUE)]
       IN  /\ UnidadeLivre(nova.unidade, 0)
           /\ configs' = Append(configs, nova)
    /\ ultimo' = [feito |-> FALSE]
    /\ UNCHANGED <<skus, lotes, importacao, outros>>

(* PUT and PATCH /configuracoes/<id>/: every field has a model default, so *)
(* none is required and both verbs set only the keys the body carries.     *)
ConfigUpdate(i, attrs) ==
    /\ i \in 1..Len(configs)
    /\ configs[i].ativo
    /\ validate(attrs)
    /\ unidade_id_valida(attrs.unidade_id)
    /\ LET velha == configs[i]
           nova == [unidade |-> Get(attrs.unidade_id, velha.unidade),
                    dias_para_critico |-> Get(attrs.dias_para_critico, velha.dias_para_critico),
                    dias_para_pre_bloqueio |->
                        Get(attrs.dias_para_pre_bloqueio, velha.dias_para_pre_bloqueio),
                    ativo |-> GetAtivo(attrs.ativo, velha.ativo)]
       IN  /\ UnidadeLivre(nova.unidade, i)
           /\ nova # velha
           /\ configs' = [configs EXCEPT ![i] = nova]
    /\ ultimo' = [feito |-> FALSE]
    /\ UNCHANGED <<skus, lotes, importacao, outros>>

(* DELETE /configuracoes/<id>/ *)
ConfigDestroy(i) ==
    /\ i \in 1..Len(configs)
    /\ configs[i].ativo
    /\ configs' = Remover(configs, i)
    /\ ultimo' = [feito |-> FALSE]
    /\ UNCHANGED <<skus, lotes, importacao, outros>>

----------------------------------------------------------------------------
(* admin.py: LoteValidadeAdmin (add, change, delete of a lot) *)

LoteRows ==
    [existe : {TRUE}, data_validade : Datas, qtd_estoque : Quantidades, ativo : BOOLEAN]

(* The lots of the config-centred specification: active, in stock.         *)
LoteRowsEmEstoque == {r \in LoteRows : r.ativo /\ r.qtd_estoque > 0}

AdminSalvarLote(k, n, row) ==
    /\ skus[k].existe
    /\ lotes[<<k, n>>] # row
    /\ lotes' = [lotes EXCEPT ![<<k, n>>] = row]
    /\ ultimo' = [feito |-> FALSE]
    /\ UNCHANGED <<skus, configs, importacao, outros>>

AdminExcluirLote(k, n) ==
    /\ lotes[<<k, n>>].existe
    /\ lotes' = [lotes EXCEPT ![<<k, n>>] = NoLote]
    /\ ultimo' = [feito |-> FALSE]
    /\ UNCHANGED <<skus, configs, importacao, outros>>

----------------------------------------------------------------------------
(* A caller of get_status: no config, or a stored ConfiguracaoAlerta row.  *)
ConfigsDoChamador ==
    {NoConfig} \cup {Dado(configs[i]) : i \in 1..Len(configs)}

GetStatus(k, config) ==
    /\ skus[k].existe
    /\ config \in ConfigsDoChamador
    /\ \E r \in get_status(k, config) :
          ultimo' = [feito |-> TRUE, sku |-> k, config |-> config, res |-> r]
    /\ UNCHANGED <<skus, lotes, configs, importacao, outros>>

----------------------------------------------------------------------------
SKURow == [existe |-> TRUE, nome_produto |-> "n0", unidade_medida |-> "UN", ativo |-> TRUE]

(* importar_estoque.py: the counters of a run, and no run in progress     *)
ResultadoZero ==
    [sucesso |-> 0, falhas |-> 0, skus_criados |-> 0, skus_atualizados |-> 0,
     lotes_criados |-> 0, lotes_atualizados |-> 0, unidades_nao_encontradas |-> {},
     erros |-> <<>>]

ComandoOcioso ==
    [pc |-> "idle", arquivo |-> <<>>, idx |-> 0, dry_run |-> FALSE, limpar_lotes |-> FALSE,
     unidades_cache |-> {}, skus_processados |-> {}, resultado |-> ResultadoZero,
     tocados |-> {}]

(* The local state of an import call that has not begun.                  *)
ChamadaOciosa ==
    [pc |-> "idle", servico |-> [unidade_negocio |-> 0], tipo |-> "nenhum", arquivo |-> <<>>,
     quadro |-> [colunas |-> {}, indice |-> "RangeIndex"], idx |-> 0,
     resultado |-> [success |-> FALSE], antes |-> [skus |-> skus, lotes |-> lotes],
     anterior |-> [repetido |-> FALSE]]

SemImportacao ==
    /\ pc = "idle"
    /\ servico = [unidade_negocio |-> 0]
    /\ tipo = "nenhum"
    /\ arquivo = <<>>
    /\ quadro = [colunas |-> {}, indice |-> "RangeIndex"]
    /\ idx = 0
    /\ resultado = [success |-> FALSE]
    /\ antes = [skus |-> skus, lotes |-> lotes]
    /\ anterior = [repetido |-> FALSE]
    /\ suspensa = ChamadaOciosa

Init ==
    /\ comando = ComandoOcioso
    /\ unidades = [u \in Unidades |-> UnidadeRow]
    /\ logs = <<>>
    /\ skus = [k \in ChavesSKU |-> IF k = <<1, "A">> THEN SKURow ELSE NoSKU]
    /\ lotes = [x \in ChavesSKU \X NumerosLote |-> NoLote]
    /\ configs = <<>>
    /\ ultimo = [feito |-> FALSE]
    /\ SemImportacao

Next ==
    \/ \E a \in Corpos : ConfigCreate(a)
    \/ \E i \in 1..MaxConfigs, a \in Corpos : ConfigUpdate(i, a)
    \/ \E i \in 1..MaxConfigs : ConfigDestroy(i)
    \/ \E k \in ChavesSKU, row \in LoteRowsEmEstoque : AdminSalvarLote(k, "L1", row)
    \/ \E k \in ChavesSKU : AdminExcluirLote(k, "L1")
    \/ \E k \in ChavesSKU, c \in ConfigsDoChamador : GetStatus(k, c)

Spec == Init /\ [][Next]_vars

(* The lot-centred specification: every lot of the product, few configs.   *)
NextLotes ==
    \/ \E a \in CorposSimples : ConfigCreate(a)
    \/ \E i \in 1..MaxConfigs : ConfigDestroy(i)
    \/ \E k \in ChavesSKU, n \in NumerosAdmin, row \in LoteRows : AdminSalvarLote(k, n, row)
    \/ \E k \in ChavesSKU, n \in NumerosAdmin : AdminExcluirLote(k, n)
    \/ \E k \in ChavesSKU, c \in ConfigsDoChamador : GetStatus(k, c)

SpecLotes == Init /\ [][NextLotes]_vars
----------------------------------------------------------------------------
(* models.py: Usuario, UsuarioUnidade; views.py: UnidadeNegocioViewSet;    *)
(* admin.py: UnidadeNegocioAdmin                                           *)

Usuarios == {"admin", "u1"}
is_superuser(usr) == usr = "admin"
vinculos == [usr \in Usuarios |-> IF usr = "u1" THEN {1} ELSE {}]   \* UsuarioUnidade rows

(* UnidadeNegocio.codigo_unb, unique *)
codigo_unb(u) == IF u = 1 THEN "UNB1" ELSE "UNB2"

UnidadesAtivas == {u \in Unidades : unidades[u].existe /\ unidades[u].ativo}

get_unidades_ids(usr) ==
    IF is_superuser(usr) THEN UnidadesAtivas ELSE vinculos[usr] \cap UnidadesAtivas

(* UnidadeNegocioViewSet.get_queryset *)
unidades_visiveis(usr) ==
    IF is_superuser(usr) THEN UnidadesAtivas ELSE UnidadesAtivas \cap get_unidades_ids(usr)

(* on_delete=PROTECT on SKU.unidade_negocio: delete() raises ProtectedError *)
unidade_protegida(u) == \E c \in Codigos : skus[<<u, c>>].existe

(* on_delete=CASCADE on ConfiguracaoAlerta.unidade *)
sem_configs_de(u) == SelectSeq(configs, LAMBDA c : c.unidade # u)

(* POST /unidades/ *)
UnidadeCreate(usr, ativo) ==
    /\ \E u \in Unidades : ~unidades[u].usada
    /\ LET u == CHOOSE u \in Unidades :
                    ~unidades[u].usada /\ \A v \in Unidades : ~unidades[v].usada => u <= v
       IN  unidades' = [unidades EXCEPT ![u] = [UnidadeRow EXCEPT !.ativo = ativo]]
    /\ ultimo' = [feito |-> FALSE]
    /\ UNCHANGED <<logs, skus, lotes, configs, importacao, comando, suspensa>>

(* PUT and PATCH /unidades/<id>/: 'ativo' is a writable serializer field   *)
UnidadeUpdate(usr, u, ativo) ==
    /\ u \in unidades_visiveis(usr)
    /\ unidades[u].ativo # ativo
    /\ unidades' = [unidades EXCEPT ![u].ativo = ativo]
    /\ ultimo' = [feito |-> FALSE]
    /\ UNCHANGED <<logs, skus, lotes, configs, importacao, comando, suspensa>>

(* DELETE /unidades/<id>/: ModelViewSet keeps DestroyModelMixin, whose     *)
(* perform_destroy calls instance.delete()                                 *)
UnidadeDestroy(usr, u) ==
    /\ u \in unidades_visiveis(usr)
    /\ ~unidade_protegida(u)
    /\ unidades' = [unidades EXCEPT ![u] = UnidadeExcluida]
    /\ configs' = sem_configs_de(u)
    /\ ultimo' = [feito |-> FALSE]
    /\ UNCHANGED <<logs, skus, lotes, importacao, comando, suspensa>>

(* The admin change form of a unit *)
AdminSalvarUnidade(u, ativo) ==
    /\ unidades[u].existe
    /\ unidades[u].ativo # ativo
    /\ unidades' = [unidades EXCEPT ![u].ativo = ativo]
    /\ ultimo' = [feito |-> FALSE]
    /\ UNCHANGED <<logs, skus, lotes, configs, importacao, comando, suspensa>>

(* The admin delete view and the delete_selected action of a ModelAdmin    *)
AdminExcluirUnidade(u) ==
    /\ unidades[u].existe
    /\ ~unidade_protegida(u)
    /\ unidades' = [unidades EXCEPT ![u] = UnidadeExcluida]
    /\ configs' = sem_configs_de(u)
    /\ ultimo' = [feito |-> FALSE]
    /\ UNCHANGED <<logs, skus, lotes, importacao, comando, suspensa>>

CorposPorUnidade ==
    {[unidade_id |-> u, dias_para_critico |-> 1, dias_para_pre_bloqueio |-> 2,
      ativo |-> "omitido"] : u \in {SemUnidade} \cup Unidades}

InitUnidades ==
    /\ comando = ComandoOcioso
    /\ unidades = [u \in Unidades |-> IF u = 1 THEN UnidadeRow ELSE NoUnidade]
    /\ logs = <<>>
    /\ skus = [k \in ChavesSKU |-> IF k = <<1, "A">> THEN SKURow ELSE NoSKU]
    /\ lotes = [x \in ChavesSKU \X NumerosLote |-> NoLote]
    /\ configs = <<>>
    /\ ultimo = [feito |-> FALSE]
    /\ SemImportacao

NextUnidades ==
    \/ \E usr \in Usuarios, ativo \in BOOLEAN : UnidadeCreate(usr, ativo)
    \/ \E usr \in Usuarios, u \in Unidades, ativo \in BOOLEAN : UnidadeUpdate(usr, u, ativo)
    \/ \E usr \in Usuarios, u \in Unidades : UnidadeDestroy(usr, u)
    \/ \E u \in Unidades, ativo \in BOOLEAN : AdminSalvarUnidade(u, ativo)
    \/ \E u \in Unidades : AdminExcluirUnidade(u)
    \/ \E a \in CorposPorUnidade : ConfigCreate(a)
    \/ \E i \in 1..MaxConfigs : ConfigDestroy(i)
    \/ \E k \in ChavesSKU, row \in LoteRowsEmEstoque : AdminSalvarLote(k, "L1", row)

SpecUnidades == InitUnidades /\ [][NextUnidades]_vars

----------------------------------------------------------------------------
(* models.py: the columns the store holds.  Model.objects.get_or_create    *)
(* raises FieldError when defaults names anything else, and reading an     *)
(* attribute that is no column of a fetched row raises AttributeError.     *)

BaseModelFields == {"id", "created_at", "updated_at", "ativo"}

SKUFields ==
    BaseModelFields \cup
    {"codigo_sku", "nome_produto", "unidade_negocio", "categoria", "unidade_medida",
     "descricao", "imagem"}

LoteValidadeFields ==
    BaseModelFields \cup
    {"sku", "numero_lote", "data_validade", "data_fabricacao", "qtd_estoque",
     "localizacao", "custo_unitario", "fornecedor"}

data_validade_null == FALSE          \* LoteValidade.data_validade: no null=True

----------------------------------------------------------------------------
(* services.py: EstoqueImportService *)

UnidadesAlvo == {1}                  \* the unit the service is built for

(* The required and the other columns, after _normalize_columns.           *)
ColunasGrade ==
    {"codigo_sku", "nome_produto", "unidade_medida", "fator_conversao",
     "estoque_display", "qtd_estoque"}
ColunasContagens == {"codigo_sku", "data_validade", "qtd_caixas", "qtd_unidades"}

(* Cells.  "nan" is what str() gives for an empty cell; a date cell is     *)
(* named by the format its text matches.                                   *)
CelulasCodigo == {"A", " ", "nan"}
CelulasQtd == {"1", "x"}
CelulasData == {"%d/%m/%Y", "lixo"}

LinhasGrade ==
    [codigo_sku : CelulasCodigo, nome_produto : {"n1"}, unidade_medida : {"cx"},
     qtd_estoque : CelulasQtd]

LinhasContagens ==
    [codigo_sku : CelulasCodigo, data_validade : CelulasData,
     qtd_caixas : {"1"}, qtd_unidades : {"0"}]

ArquivosDe(L) == UNION {[1..n -> L] : n \in 0..MaxLinhas}
ArquivosDeUmaLinha(L) == [1..1 -> L]

Colunas(t) == IF t = "grade" THEN ColunasGrade ELSE ColunasContagens

(* required_cols = [...]; raise ValueError(...) when one is missing        *)
required_cols(t) ==
    IF t = "grade" THEN {"codigo_sku", "qtd_estoque"} ELSE {"codigo_sku", "data_validade"}

(* df[c] = df.get(c, <scalar>).fillna(...): with the column absent df.get  *)
(* returns the scalar, which has no fillna: AttributeError                 *)
colunas_preenchidas(t) ==
    IF t = "grade"
    THEN {"fator_conversao", "nome_produto", "unidade_medida", "estoque_display"}
    ELSE {"qtd_caixas", "qtd_unidades"}

falha_antes_das_linhas(t, cols) ==
    \/ ~(required_cols(t) \subseteq cols)
    \/ ~(colunas_preenchidas(t) \subseteq cols)

strip(c) == IF c = " " THEN "" ELSE c
upper(c) == IF c = "cx" THEN "CX" ELSE c

(* pd.to_numeric(col, errors='coerce').fillna(padrao).astype(int)          *)
to_numeric_fillna(c, padrao) ==
    CASE c = "0" -> 0 [] c = "1" -> 1 [] OTHER -> padrao

date_formats == {"%d/%m/%Y", "%Y-%m-%d", "%d-%m-%Y", "%d/%m/%y", "%Y/%m/%d", "%m/%d/%Y"}

_parse_date(value) == IF value \in date_formats THEN DataImportada ELSE DataNula

(* f"VAL_{data_validade.strftime('%Y%m%d')}" *)
numero_lote_val(d) == IF d = DataImportada THEN "VAL_3" ELSE "VAL_?"

_reset_counters(u) ==
    [unidade_negocio |-> u, errors |-> <<>>, warnings |-> <<>>,
     processed_count |-> 0, created_count |-> 0, updated_count |-> 0]

_build_result_avisos_falham(srv, t) ==
    [success |-> (Len(srv.errors) = 0 /\ Len(srv.warnings) = 0),
     tipo |-> t,
     unidade |-> srv.unidade_negocio,
     processed |-> srv.processed_count,
     created |-> srv.created_count,
     updated |-> srv.updated_count,
     errors |-> srv.errors,
     warnings |-> srv.warnings]

_build_result(srv, t) ==
    [success |-> (Len(srv.errors) = 0 \/ srv.processed_count > 0),
     tipo |-> t,
     unidade |-> srv.unidade_negocio,
     processed |-> srv.processed_count,
     created |-> srv.created_count,
     updated |-> srv.updated_count,
     errors |-> srv.errors,
     warnings |-> srv.warnings]

falha_de_arquivo_com_sucesso == [success |-> TRUE, error |-> "erro", processed |-> 0]

(* return {'success': False, 'error': str(e), 'processed': 0}              *)
falha_de_arquivo == [success |-> FALSE, error |-> "erro", processed |-> 0]

registrar_erro_sem_cabecalho(srv, linha, exc) ==
    [srv EXCEPT !.errors = Append(@, [linha |-> linha - 1, exc |-> exc])]

(* self.errors.append(f"Linha {idx + 2}: {str(e)}") *)
registrar_erro(srv, linha, exc) ==
    [srv EXCEPT !.errors = Append(@, [linha |-> linha, exc |-> exc])]

registrar_aviso_mudo(srv, linha, motivo, codigo) == srv

registrar_aviso(srv, linha, motivo, codigo) ==
    [srv EXCEPT !.warnings = Append(@, [linha |-> linha, motivo |-> motivo, codigo |-> codigo])]

contar_invertido(srv, created) ==
    IF created THEN [srv EXCEPT !.updated_count = @ + 1]
    ELSE [srv EXCEPT !.created_count = @ + 1]

(* if not created: updated_count += 1, else: created_count += 1            *)
contar(srv, created) ==
    IF created THEN [srv EXCEPT !.created_count = @ + 1]
    ELSE [srv EXCEPT !.updated_count = @ + 1]

processado(srv) == [srv EXCEPT !.processed_count = @ + 1]

Passo(S, L, srv) == [skus |-> S, lotes |-> L, srv |-> srv]

defaults_sku_grade == {"nome_produto", "unidade_medida", "fator_conversao"}
defaults_lote_grade == {"qtd_estoque", "estoque_display"}

(* The BASE lot of processar_grade_020502 (lines 216-233), after the SKU   *)
(* step left the tables S and the service srv.                             *)
lote_base(k, row, linha, S, srv) ==
    LET base  == lotes[<<k, "BASE">>]
        qtd   == to_numeric_fillna(row.qtd_estoque, 0)
        achou == base.existe /\ base.data_validade = DataNula
    IN  IF achou
        THEN Passo(S, [lotes EXCEPT ![<<k, "BASE">>].qtd_estoque = qtd], processado(srv))
        ELSE IF ~(defaults_lote_grade \subseteq LoteValidadeFields)
        THEN Passo(S, lotes, registrar_erro(srv, linha, "FieldError"))
        ELSE IF ~data_validade_null \/ base.existe
        THEN Passo(S, lotes, registrar_erro(srv, linha, "IntegrityError"))
        ELSE Passo(S,
                   [lotes EXCEPT ![<<k, "BASE">>] =
                       [existe |-> TRUE, data_validade |-> DataNula,
                        qtd_estoque |-> qtd, ativo |-> TRUE]],
                   processado(srv))

chave_sku_so_codigo(u, codigo_sku) ==
    IF \E v \in Unidades : skus[<<v, codigo_sku>>].existe
    THEN <<CHOOSE v \in Unidades : skus[<<v, codigo_sku>>].existe, codigo_sku>>
    ELSE <<u, codigo_sku>>

(* The lookup codigo_sku=codigo_sku, unidade_negocio=self.unidade_negocio  *)
chave_sku(u, codigo_sku) == <<u, codigo_sku>>

(* One iteration of the loop of processar_grade_020502 (lines 189-236).    *)
linha_grade(row, i) ==
    LET codigo_sku == strip(row.codigo_sku)
        k     == chave_sku(servico.unidade_negocio, codigo_sku)
        linha == i + 2
    IN  IF codigo_sku = "" \/ codigo_sku = "nan"
        THEN Passo(skus, lotes, servico)
        ELSE IF ~skus[k].existe
        THEN IF ~(defaults_sku_grade \subseteq SKUFields)
             THEN Passo(skus, lotes, registrar_erro(servico, linha, "FieldError"))
             ELSE lote_base(k, row, linha,
                            [skus EXCEPT ![k] =
                                [existe |-> TRUE, nome_produto |-> strip(row.nome_produto),
                                 unidade_medida |-> upper(strip(row.unidade_medida)),
                                 ativo |-> TRUE]],
                            contar(servico, TRUE))
        ELSE lote_base(k, row, linha,
                       [skus EXCEPT ![k].nome_produto = strip(row.nome_produto),
                                    ![k].unidade_medida = upper(strip(row.unidade_medida))],
                       contar(servico, FALSE))

sku_ativo_de_qualquer_unidade(u, codigo_sku) ==
    \E v \in Unidades : skus[<<v, codigo_sku>>].existe /\ skus[<<v, codigo_sku>>].ativo

(* SKU.objects.get(codigo_sku=..., unidade_negocio=..., ativo=True)        *)
sku_ativo_da_unidade(u, codigo_sku) ==
    skus[<<u, codigo_sku>>].existe /\ skus[<<u, codigo_sku>>].ativo

(* The lot upsert of processar_contagens (lines 307-335).                  *)
lote_contagem(k, row, linha, data_validade) ==
    LET qtd_caixas   == to_numeric_fillna(row.qtd_caixas, 0)
        qtd_unidades == to_numeric_fillna(row.qtd_unidades, 0)
        qtd_total    == (qtd_caixas * skus[k].fator_conversao) + qtd_unidades
        numero_lote  == numero_lote_val(data_validade)
        mesmos == {n \in NumerosLote :
                      lotes[<<k, n>>].existe /\ lotes[<<k, n>>].data_validade = data_validade}
    IN  IF Cardinality(mesmos) > 1
        THEN Passo(skus, lotes, registrar_erro(servico, linha, "MultipleObjectsReturned"))
        ELSE IF mesmos = {}
        THEN IF lotes[<<k, numero_lote>>].existe
             THEN Passo(skus, lotes, registrar_erro(servico, linha, "IntegrityError"))
             ELSE Passo(skus,
                        [lotes EXCEPT ![<<k, numero_lote>>] =
                            [existe |-> TRUE, data_validade |-> data_validade,
                             qtd_estoque |-> qtd_total, ativo |-> TRUE]],
                        processado(contar(servico, TRUE)))
        ELSE LET n == CHOOSE n \in mesmos : TRUE
             IN  IF n # numero_lote /\ lotes[<<k, numero_lote>>].existe
                 THEN Passo(skus, lotes, registrar_erro(servico, linha, "IntegrityError"))
                 ELSE Passo(skus,
                            [lotes EXCEPT ![<<k, n>>] = NoLote,
                                          ![<<k, numero_lote>>] =
                                              [lotes[<<k, n>>] EXCEPT !.qtd_estoque = qtd_total]],
                            processado(contar(servico, FALSE)))

(* One iteration of the loop of processar_contagens (lines 280-338).       *)
linha_contagens(row, i) ==
    LET codigo_sku == strip(row.codigo_sku)
        k     == <<servico.unidade_negocio, codigo_sku>>
        linha == i + 2
        data_validade == _parse_date(row.data_validade)
    IN  IF codigo_sku = "" \/ codigo_sku = "nan"
        THEN Passo(skus, lotes, servico)
        ELSE IF ~sku_ativo_da_unidade(servico.unidade_negocio, codigo_sku)
        THEN Passo(skus, lotes,
                   registrar_aviso(servico, linha, "SKU nao encontrado", codigo_sku))
        ELSE IF data_validade = DataNula
        THEN Passo(skus, lotes,
                   registrar_aviso(servico, linha, "Data de validade invalida", codigo_sku))
        ELSE IF "fator_conversao" \notin SKUFields
        THEN Passo(skus, lotes, registrar_erro(servico, linha, "AttributeError"))
        ELSE lote_contagem(k, row, linha, data_validade)

Ocioso == pc \in {"idle", "done"}

(* Was the call that just returned an import of this very file?            *)
Repeticao(t, u, arq) ==
    IF /\ pc = "done" /\ tipo = t /\ arquivo = arq /\ servico.unidade_negocio = u
       /\ "created" \in DOMAIN resultado
    THEN [repetido |-> TRUE, created |-> resultado.created, updated |-> resultado.updated]
    ELSE [repetido |-> FALSE]

(* The call up to the row loop, every column present.                      *)
IniciarImportacao(t, u, arq) ==
    /\ Ocioso
    /\ anterior' = Repeticao(t, u, arq)
    /\ pc' = "rows"
    /\ servico' = _reset_counters(u)
    /\ tipo' = t
    /\ arquivo' = arq
    /\ quadro' = [colunas |-> Colunas(t), indice |-> "RangeIndex"]
    /\ ~falha_antes_das_linhas(t, quadro'.colunas)
    /\ idx' = 0
    /\ resultado' = [success |-> FALSE]
    /\ antes' = [skus |-> skus, lotes |-> lotes]
    /\ UNCHANGED <<skus, lotes, configs, ultimo, outros>>

(* A file that lacks a column: ValueError for a required one (lines 177-   *)
(* 180, 271-274), AttributeError from .fillna on the scalar df.get returns *)
(* for any other (lines 184-187, 277-278); the outer except returns.       *)
ImportacaoArquivoInvalido(t, u, arq, falta) ==
    /\ Ocioso
    /\ falta \in Colunas(t)
    /\ quadro' = [colunas |-> Colunas(t) \ {falta}, indice |-> "RangeIndex"]
    /\ falha_antes_das_linhas(t, quadro'.colunas)
    /\ anterior' = [repetido |-> FALSE]
    /\ pc' = "done"
    /\ servico' = _reset_counters(u)
    /\ tipo' = t
    /\ arquivo' = arq
    /\ idx' = 0
    /\ resultado' = falha_de_arquivo
    /\ antes' = [skus |-> skus, lotes |-> lotes]
    /\ UNCHANGED <<skus, lotes, configs, ultimo, outros>>

(* Did the row evaluate f"Linha {idx + 2}: ..." (a warning or the handler)? *)
formata_linha(p) ==
    p.srv.errors # servico.errors \/ p.srv.warnings # servico.warnings

(* The effect of one iteration.  idx is the index label df.iterrows()      *)
(* yields; when it is text, idx + 2 raises TypeError: inside the row's try *)
(* it is caught by the row's except, whose own idx + 2 raises again, past  *)
(* the row guard, into the outer except, which returns the file-level      *)
(* failure; the function returns normally, so transaction.atomic commits   *)
(* what the rows wrote.                                                    *)
EfeitoDaLinha(p) ==
    /\ skus' = p.skus
    /\ lotes' = p.lotes
    /\ IF quadro.indice = "texto" /\ formata_linha(p)
       THEN /\ servico' = [p.srv EXCEPT !.errors = servico.errors,
                                        !.warnings = servico.warnings]
            /\ pc' = "done"
            /\ resultado' = falha_de_arquivo
            /\ idx' = idx
       ELSE /\ servico' = p.srv
            /\ idx' = idx + 1
            /\ UNCHANGED <<pc, resultado>>
    /\ UNCHANGED <<configs, ultimo, tipo, arquivo, quadro, antes, anterior, outros>>

ProcessarLinhaGrade ==
    /\ pc = "rows" /\ tipo = "grade" /\ idx < Len(arquivo)
    /\ EfeitoDaLinha(linha_grade(arquivo[idx + 1], idx))

ProcessarLinhaContagens ==
    /\ pc = "rows" /\ tipo = "contagens" /\ idx < Len(arquivo)
    /\ EfeitoDaLinha(linha_contagens(arquivo[idx + 1], idx))

(* return self._build_result(...); the atomic block commits.               *)
ConcluirImportacao ==
    /\ pc = "rows" /\ idx = Len(arquivo)
    /\ resultado' = _build_result(servico, tipo)
    /\ pc' = "done"
    /\ UNCHANGED <<skus, lotes, configs, ultimo, servico, tipo, arquivo, quadro, idx, antes, anterior,
                 outros>>

(* The stores the importers start from: each SKU absent, active or not.    *)
InitImport ==
    /\ comando = ComandoOcioso
    /\ unidades = [u \in Unidades |-> UnidadeRow]
    /\ logs = <<>>
    /\ skus \in [ChavesSKU -> {NoSKU, SKURow, [SKURow EXCEPT !.ativo = FALSE]}]
    /\ lotes = [x \in ChavesSKU \X NumerosLote |-> NoLote]
    /\ configs = <<>>
    /\ ultimo = [feito |-> FALSE]
    /\ SemImportacao

NextImport ==
    \/ \E u \in UnidadesAlvo, arq \in ArquivosDe(LinhasGrade) :
          IniciarImportacao("grade", u, arq)
    \/ \E u \in UnidadesAlvo, arq \in ArquivosDe(LinhasContagens) :
          IniciarImportacao("contagens", u, arq)
    \/ \E u \in UnidadesAlvo, arq \in ArquivosDeUmaLinha(LinhasGrade), c \in ColunasGrade :
          ImportacaoArquivoInvalido("grade", u, arq, c)
    \/ \E u \in UnidadesAlvo, arq \in ArquivosDeUmaLinha(LinhasContagens),
          c \in ColunasContagens :
          ImportacaoArquivoInvalido("contagens", u, arq, c)
    \/ ProcessarLinhaGrade
    \/ ProcessarLinhaContagens
    \/ ConcluirImportacao

SpecImport == InitImport /\ [][NextImport]_vars

(* The importers, and get_status called on the store they leave.           *)
NextStatus ==
    \/ NextImport
    \/ \E k \in ChavesSKU : GetStatus(k, NoConfig)

SpecStatus == InitImport /\ [][NextStatus]_vars

(* pd.read_csv(file, encoding=..., sep=None, engine='python') is called    *)
(* without index_col=False: when the data lines of a CSV have one field    *)
(* more than its header line, the first field of each line becomes the     *)
(* index label, and that label is what df.iterrows() yields as idx.        *)
IniciarImportacaoCSV(t, u, arq) ==
    /\ Ocioso
    /\ anterior' = [repetido |-> FALSE]
    /\ pc' = "rows"
    /\ servico' = _reset_counters(u)
    /\ tipo' = t
    /\ arquivo' = arq
    /\ quadro' = [colunas |-> Colunas(t), indice |-> "texto"]
    /\ ~falha_antes_das_linhas(t, quadro'.colunas)
    /\ idx' = 0
    /\ resultado' = [success |-> FALSE]
    /\ antes' = [skus |-> skus, lotes |-> lotes]
    /\ UNCHANGED <<skus, lotes, configs, ultimo, outros>>

NextCSV ==
    \/ NextImport
    \/ \E u \in UnidadesAlvo, arq \in ArquivosDe(LinhasGrade) :
          IniciarImportacaoCSV("grade", u, arq)
    \/ \E u \in UnidadesAlvo, arq \in ArquivosDe(LinhasContagens) :
          IniciarImportacaoCSV("contagens", u, arq)

SpecCSV == InitImport /\ [][NextCSV]_vars

----------------------------------------------------------------------------
(* views.py: the read endpoints and log_consulta.  ultimo holds the        *)
(* response: the endpoint, the requester, the HTTP status and the body.    *)

log_consulta_anonimo(usr, tipo_consulta) ==
    Append(logs, [usuario |-> "nenhum", tipo_consulta |-> tipo_consulta])

(* LogConsulta.objects.create(usuario=usuario, tipo_consulta=tipo, ...)    *)
log_consulta(usr, tipo_consulta) ==
    Append(logs, [usuario |-> usr, tipo_consulta |-> tipo_consulta])

(* Usuario.tem_acesso_unidade *)
tem_acesso_unidade(usr, u) ==
    is_superuser(usr) \/ (u \in vinculos[usr] /\ unidades[u].existe /\ unidades[u].ativo)

(* UnidadeAccessMixin.get_user_unidades *)
get_user_unidades(usr) ==
    IF is_superuser(usr) THEN UnidadesAtivas ELSE get_unidades_ids(usr)

(* SKUViewSet.get_queryset and EstoqueViewSet.get_queryset, no parameters  *)
skus_do_usuario(usr) ==
    {k \in ChavesSKU : skus[k].existe /\ skus[k].ativo /\ k[1] \in get_user_unidades(usr)}

(* The model-backed names of SKUSerializer.Meta.fields: building the       *)
(* fields raises ImproperlyConfigured when one is not on the model.        *)
SKUSerializerFields ==
    {"id", "codigo_sku", "nome_produto", "categoria", "unidade_medida", "fator_conversao",
     "descricao", "imagem"}

serializa_sku == IF SKUSerializerFields \subseteq SKUFields THEN 200 ELSE 500

Resposta(op, usr, status) == [feito |-> FALSE, op |-> op, usuario |-> usr, status |-> status]

(* GET /skus/<id>/ : SKUViewSet.retrieve *)
SKURetrieve(usr, k) ==
    /\ IF k \in skus_do_usuario(usr)
       THEN /\ Len(logs) < MaxLogs
            /\ logs' = log_consulta(usr, "VALIDADE")
            /\ ultimo' = Resposta("retrieve", usr, serializa_sku)
       ELSE /\ ultimo' = Resposta("retrieve", usr, 404)
            /\ UNCHANGED logs
    /\ UNCHANGED <<unidades, skus, lotes, configs, importacao, comando, suspensa>>

Buscas == {"", "A", "Z"}
icontains(k, search) == search = k[2]

get_queryset_sem_filtro_de_unidade(usr, search, unidade_id) ==
    {k \in ChavesSKU :
        /\ skus[k].existe /\ skus[k].ativo
        /\ (search = "" \/ icontains(k, search))
        /\ IF unidade_id # Omitido THEN k[1] = unidade_id ELSE k \in skus_do_usuario(usr)}

(* get_queryset of SKUViewSet and of EstoqueViewSet: filter_by_unidade,    *)
(* then the search, then ?unidade_id=                                      *)
get_queryset(usr, search, unidade_id) ==
    {k \in skus_do_usuario(usr) :
        /\ (search = "" \/ icontains(k, search))
        /\ (unidade_id = Omitido \/ k[1] = unidade_id)}

Lista(op, usr, status, unidade_id, itens) ==
    [feito |-> FALSE, op |-> op, usuario |-> usr, status |-> status,
     unidade_id |-> unidade_id, itens |-> IF status = 200 THEN itens ELSE {}]

(* GET /skus/?search=&unidade_id= : ListModelMixin.list over get_queryset, *)
(* serialized by SKUListSerializer                                         *)
SKUList(usr, search, unidade_id) ==
    /\ ultimo' = Lista("list", usr, 200, unidade_id, get_queryset(usr, search, unidade_id))
    /\ UNCHANGED <<logs, unidades, skus, lotes, configs, importacao, comando, suspensa>>

(* GET /skus/consulta_validade/?search=&unidade_id= :                      *)
(* SKUViewSet.consulta_validade                                            *)
ConsultaValidade(usr, search, unidade_id) ==
    /\ IF search = ""
       THEN /\ ultimo' = Lista("consulta_validade", usr, 400, unidade_id, {})
            /\ UNCHANGED logs
       ELSE /\ Len(logs) < MaxLogs
            /\ logs' = log_consulta(usr, "VALIDADE")
            /\ ultimo' = Lista("consulta_validade", usr,
                               IF get_queryset(usr, search, unidade_id) = {}
                               THEN 200 ELSE serializa_sku,
                               unidade_id, get_queryset(usr, search, unidade_id))
    /\ UNCHANGED <<unidades, skus, lotes, configs, importacao, comando, suspensa>>

(* GET /estoque/ : EstoqueViewSet.list *)
EstoqueList(usr, search, unidade_id) ==
    /\ Len(logs) < MaxLogs
    /\ logs' = log_consulta(usr, "ESTOQUE")
    /\ ultimo' = Lista("estoque", usr, 200, unidade_id, get_queryset(usr, search, unidade_id))
    /\ UNCHANGED <<unidades, skus, lotes, configs, importacao, comando, suspensa>>

(* GET /logs/ : LogConsultaViewSet, a ReadOnlyModelViewSet *)
LogsList(usr) ==
    /\ ultimo' = [feito |-> FALSE, op |-> "logs", usuario |-> usr, status |-> 200,
                  linhas |-> {i \in 1..Len(logs) : is_superuser(usr) \/ logs[i].usuario = usr}]
    /\ UNCHANGED <<unidades, logs, skus, lotes, configs, importacao, comando, suspensa>>

(* The config RelatorioCriticidadeView.get looks up (lines 390-397)        *)
config_do_relatorio(unidade_id) ==
    IF unidade_id # Omitido /\ ConfigsDaUnidade(unidade_id) # {}
    THEN Dado(configs[Primeiro(ConfigsDaUnidade(unidade_id))])
    ELSE IF GlobaisAtivas # {} THEN Dado(configs[Primeiro(GlobaisAtivas)])
    ELSE NoConfig

(* The queryset of the report (lines 402-419)                              *)
skus_do_relatorio(usr, unidade_id) ==
    {k \in ChavesSKU :
        /\ skus[k].existe /\ skus[k].ativo
        /\ IF unidade_id # Omitido THEN k[1] = unidade_id ELSE k[1] \in get_unidades_ids(usr)}

status_de(k, config) == (CHOOSE r \in get_status(k, config) : TRUE).status

vai_para_bloqueados_so_vencido(status_code) == status_code = "VENCIDO"

(* if status_code in ['VENCIDO', 'CRITICO']: bloqueados.append(sku)        *)
vai_para_bloqueados(status_code) == status_code \in {"VENCIDO", "CRITICO"}

(* elif status_code == 'PRE_BLOQUEIO': pre_bloqueio.append(sku)            *)
vai_para_pre_bloqueio(status_code) ==
    ~vai_para_bloqueados(status_code) /\ status_code = "PRE_BLOQUEIO"

corpo_do_relatorio(usr, unidade_id) ==
    LET config       == config_do_relatorio(unidade_id)
        queryset     == skus_do_relatorio(usr, unidade_id)
        bloqueados   == {k \in queryset : vai_para_bloqueados(status_de(k, config))}
        pre_bloqueio == {k \in queryset : vai_para_pre_bloqueio(status_de(k, config))}
    IN  [feito |-> FALSE, op |-> "relatorio", usuario |-> usr, status |-> 200,
         unidade_id |-> unidade_id,
         config |-> config,
         total_bloqueados |-> Cardinality(bloqueados),
         total_pre_bloqueio |-> Cardinality(pre_bloqueio),
         bloqueados |-> bloqueados,
         pre_bloqueio |-> pre_bloqueio,
         serializado |-> [k \in bloqueados \cup pre_bloqueio |-> status_de(k, NoConfig)]]

(* GET /relatorio-criticidade/?unidade_id= : RelatorioCriticidadeView.get  *)
RelatorioCriticidade(usr, unidade_id) ==
    /\ IF unidade_id # Omitido /\ ~(unidades[unidade_id].existe /\ unidades[unidade_id].ativo)
       THEN /\ ultimo' = Resposta("relatorio", usr, 404)
            /\ UNCHANGED logs
       ELSE IF unidade_id # Omitido /\ ~is_superuser(usr) /\ ~tem_acesso_unidade(usr, unidade_id)
       THEN /\ ultimo' = Resposta("relatorio", usr, 403)
            /\ UNCHANGED logs
       ELSE /\ Len(logs) < MaxLogs
            /\ logs' = log_consulta(usr, "CRITICIDADE")
            /\ ultimo' = corpo_do_relatorio(usr, unidade_id)
    /\ UNCHANGED <<unidades, skus, lotes, configs, importacao, comando, suspensa>>

InitConsultas ==
    /\ comando = ComandoOcioso
    /\ unidades = [u \in Unidades |-> UnidadeRow]
    /\ logs = <<>>
    /\ skus = [k \in ChavesSKU |-> SKURow]
    /\ lotes \in {[x \in ChavesSKU \X NumerosLote |->
                     IF x[2] = "L1" /\ x[1][1] = 1
                     THEN [existe |-> TRUE, data_validade |-> d, qtd_estoque |-> 1,
                           ativo |-> TRUE]
                     ELSE NoLote] : d \in {2, 46}}
    /\ configs = <<>>
    /\ ultimo = [feito |-> FALSE]
    /\ SemImportacao

NextConsultas ==
    \/ \E usr \in Usuarios, k \in ChavesSKU : SKURetrieve(usr, k)
    \/ \E usr \in Usuarios, search \in Buscas, u \in {Omitido} \cup Unidades :
          ConsultaValidade(usr, search, u)
    \/ \E usr \in Usuarios, search \in Buscas, u \in {Omitido} \cup Unidades :
          EstoqueList(usr, search, u)
    \/ \E usr \in Usuarios : LogsList(usr)
    \/ \E usr \in Usuarios, u \in {Omitido} \cup Unidades : RelatorioCriticidade(usr, u)
    \/ \E u \in Unidades, ativo \in BOOLEAN : AdminSalvarUnidade(u, ativo)

SpecConsultas == InitConsultas /\ [][NextConsultas]_vars

(* ?codigo_unb= : UnidadeNegocio.objects.get(codigo_unb=codigo_unb, ...)    *)
unidade_do_codigo(c) == CHOOSE u \in Unidades : codigo_unb(u) = c

(* The read endpoints that return SKUs, over units that are switched on    *)
(* and off and lots that come and go.                                      *)
NextAcesso ==
    \/ \E usr \in Usuarios, search \in Buscas, u \in {Omitido} \cup Unidades :
          SKUList(usr, search, u)
    \/ \E usr \in Usuarios, search \in Buscas, u \in {Omitido} \cup Unidades :
          ConsultaValidade(usr, search, u)
    \/ \E usr \in Usuarios, search \in Buscas, u \in {Omitido} \cup Unidades :
          EstoqueList(usr, search, u)
    \/ \E usr \in Usuarios, u \in {Omitido} \cup Unidades : RelatorioCriticidade(usr, u)
    \/ \E usr \in Usuarios, c \in {"UNB1", "UNB2"} :
          RelatorioCriticidade(usr, unidade_do_codigo(c))
    \/ \E u \in Unidades, ativo \in BOOLEAN : AdminSalvarUnidade(u, ativo)
    \/ \E k \in ChavesSKU,
          row \in {r \in LoteRowsEmEstoque : r.data_validade = 2 /\ r.qtd_estoque = 1} :
          AdminSalvarLote(k, "L1", row)

SpecAcesso == InitConsultas /\ [][NextAcesso]_vars

CorposDoRelatorio ==
    {[unidade_id |-> u, dias_para_critico |-> 1, dias_para_pre_bloqueio |-> dp,
      ativo |-> "omitido"] : u \in {SemUnidade, 1}, dp \in {2, Omitido}}

NextRelatorio ==
    \/ \E usr \in Usuarios, u \in {Omitido} \cup Unidades : RelatorioCriticidade(usr, u)
    \/ \E a \in CorposDoRelatorio : ConfigCreate(a)
    \/ \E i \in 1..MaxConfigs : ConfigDestroy(i)
    \/ \E k \in ChavesSKU, row \in LoteRowsEmEstoque : AdminSalvarLote(k, "L1", row)
    \/ \E k \in ChavesSKU : AdminExcluirLote(k, "L1")

SpecRelatorio == InitConsultas /\ [][NextRelatorio]_vars

----------------------------------------------------------------------------
(* management/commands/importar_estoque.py *)

CelulasUnidade == {"UNB1", "UNB9"}

LinhasComando ==
    {r \in [cod_unb : CelulasUnidade, sku : {"A"}, descricao : {"n1"},
            lote : NumerosAdmin, validade : CelulasData, qtd : {"1", "-1"}] :
        /\ r.cod_unb = "UNB9" => (r.lote = "L1" /\ r.validade = "%d/%m/%Y")
        /\ r.qtd = "-1" => (r.cod_unb = "UNB1" /\ r.lote = "L1" /\ r.validade = "%d/%m/%Y")}

formatos == {"%d/%m/%Y", "%d-%m-%Y", "%Y-%m-%d", "%d/%m/%y", "%Y/%m/%d"}

(* Command._parse_data: a date, None for an empty cell, or ValueError      *)
_parse_data(valor) ==
    IF valor = "" THEN [erro |-> FALSE, data |-> DataNula]
    ELSE IF valor \in formatos THEN [erro |-> FALSE, data |-> DataImportada]
    ELSE [erro |-> TRUE]

(* Command._parse_quantidade *)
_parse_quantidade(valor) ==
    CASE valor = "" -> [erro |-> FALSE, qtd |-> 0]
      [] valor = "1" -> [erro |-> FALSE, qtd |-> 1]
      [] valor = "-1" -> [erro |-> FALSE, qtd |-> -1]
      [] OTHER -> [erro |-> TRUE]

(* handle() up to the row loop of _processar_importacao                    *)
IniciarComando(arq, dry_run, limpar_lotes) ==
    /\ comando.pc \in {"idle", "done"}
    /\ comando' = [pc |-> "rows", arquivo |-> arq, idx |-> 0, dry_run |-> dry_run,
                   limpar_lotes |-> limpar_lotes,
                   unidades_cache |-> {codigo_unb(u) : u \in UnidadesAtivas},
                   skus_processados |-> {}, resultado |-> ResultadoZero,
                   tocados |-> {}]
    /\ antes' = [skus |-> skus, lotes |-> lotes]
    /\ UNCHANGED <<unidades, logs, skus, lotes, configs, ultimo, pc, servico, tipo, arquivo,
                   quadro, idx, resultado, anterior, suspensa>>

falha_da_linha(cmd, linha_num, nao_encontrada) ==
    [cmd EXCEPT !.resultado.falhas = @ + 1,
                !.resultado.erros = Append(@, linha_num),
                !.resultado.unidades_nao_encontradas = @ \cup nao_encontrada,
                !.idx = @ + 1]

(* if limpar_lotes and cache_key not in skus_processados                   *)
limpa(limpar_lotes, cache_key, skus_processados) ==
    limpar_lotes /\ cache_key \notin skus_processados

(* qtd_estoque is a PositiveIntegerField: the table carries the check      *)
(* qtd_estoque >= 0, and update_or_create runs no validator.               *)
viola_check(quantidade) == quantidade < 0

(* The body of "with transaction.atomic():" for one row (lines 248-285).   *)
(* An exception leaves the block: the writes of the block are rolled back, *)
(* what the block did to skus_processados and resultado stays.  A cached   *)
(* sku whose row the rollback removed makes the lot insert violate the     *)
(* foreign key.                                                            *)
escreve_linha(row, k, linha_num, data_validade, quantidade) ==
    LET cache_key  == <<row.cod_unb, row.sku>>
        em_cache   == cache_key \in comando.skus_processados
        sku_criado == ~em_cache /\ ~skus[k].existe
        skus1 == IF em_cache THEN skus
                 ELSE IF skus[k].existe
                 THEN [skus EXCEPT ![k].nome_produto = row.descricao, ![k].ativo = TRUE]
                 ELSE [skus EXCEPT ![k] = [SKURow EXCEPT !.nome_produto = row.descricao]]
        processados1 == comando.skus_processados \cup {cache_key}
        lotes1 == IF limpa(comando.limpar_lotes, cache_key, processados1)
                  THEN [x \in DOMAIN lotes |-> IF x[1] = k THEN NoLote ELSE lotes[x]]
                  ELSE lotes
        lote_criado == ~lotes1[<<k, row.lote>>].existe
        lotes2 == [lotes1 EXCEPT ![<<k, row.lote>>] =
                      [existe |-> TRUE, data_validade |-> data_validade,
                       qtd_estoque |-> quantidade, ativo |-> TRUE]]
        r  == comando.resultado
        r1 == [r EXCEPT
                 !.skus_criados = IF ~em_cache /\ sku_criado THEN @ + 1 ELSE @,
                 !.skus_atualizados = IF ~em_cache /\ ~sku_criado THEN @ + 1 ELSE @]
        r2 == [r1 EXCEPT
                 !.lotes_criados = IF lote_criado THEN @ + 1 ELSE @,
                 !.lotes_atualizados = IF lote_criado THEN @ ELSE @ + 1,
                 !.sucesso = @ + 1]
    IN  IF viola_check(quantidade) \/ ~skus1[k].existe
        THEN /\ UNCHANGED <<skus, lotes>>
             /\ comando' = [comando EXCEPT !.skus_processados = processados1,
                                           !.resultado = [r1 EXCEPT
                                               !.falhas = @ + 1,
                                               !.erros = Append(@, linha_num)],
                                           !.idx = @ + 1]
        ELSE /\ skus' = skus1
             /\ lotes' = lotes2
             /\ comando' = [comando EXCEPT !.skus_processados = processados1,
                                           !.resultado = r2,
                                           !.tocados = @ \cup {k},
                                           !.idx = @ + 1]

(* One iteration of the loop of _processar_importacao (lines 217-300)      *)
ProcessarLinhaComando ==
    /\ comando.pc = "rows" /\ comando.idx < Len(comando.arquivo)
    /\ LET row       == comando.arquivo[comando.idx + 1]
           linha_num == comando.idx + 2
           vazio     == row.cod_unb = "" \/ row.sku = "" \/ row.descricao = ""
                        \/ row.validade = ""
           data      == _parse_data(row.validade)
           qtd       == _parse_quantidade(row.qtd)
           k         == <<CHOOSE u \in Unidades : codigo_unb(u) = row.cod_unb, row.sku>>
       IN  IF vazio
           THEN comando' = falha_da_linha(comando, linha_num, {}) /\ UNCHANGED <<skus, lotes>>
           ELSE IF row.cod_unb \notin comando.unidades_cache
           THEN /\ comando' = falha_da_linha(comando, linha_num, {row.cod_unb})
                /\ UNCHANGED <<skus, lotes>>
           ELSE IF data.erro \/ qtd.erro
           THEN comando' = falha_da_linha(comando, linha_num, {}) /\ UNCHANGED <<skus, lotes>>
           ELSE IF comando.dry_run
           THEN /\ comando' = [comando EXCEPT !.resultado.sucesso = @ + 1, !.idx = @ + 1]
                /\ UNCHANGED <<skus, lotes>>
           ELSE escreve_linha(row, k, linha_num, data.data, qtd.qtd)
    /\ UNCHANGED <<unidades, logs, configs, ultimo, importacao, suspensa>>

(* return resultado; self._exibir_resumo(resultado)                        *)
ConcluirComando ==
    /\ comando.pc = "rows" /\ comando.idx = Len(comando.arquivo)
    /\ comando' = [comando EXCEPT !.pc = "done"]
    /\ UNCHANGED <<unidades, logs, skus, lotes, configs, ultimo, importacao, suspensa>>

(* The stores the command starts from: SKU "A" of unit 1 absent, or        *)
(* present with each of its two lots there or not.                         *)
InitComando ==
    /\ unidades = [u \in Unidades |-> UnidadeRow]
    /\ logs = <<>>
    /\ \E tem \in BOOLEAN, L \in SUBSET NumerosAdmin :
          /\ (~tem => L = {})
          /\ skus = [k \in ChavesSKU |-> IF tem /\ k = <<1, "A">> THEN SKURow ELSE NoSKU]
          /\ lotes = [x \in ChavesSKU \X NumerosLote |->
                        IF x[1] = <<1, "A">> /\ x[2] \in L
                        THEN [existe |-> TRUE, data_validade |-> 2, qtd_estoque |-> 1,
                              ativo |-> TRUE]
                        ELSE NoLote]
    /\ configs = <<>>
    /\ ultimo = [feito |-> FALSE]
    /\ SemImportacao
    /\ comando = ComandoOcioso

NextComando ==
    \/ \E arq \in ArquivosDe(LinhasComando), dry_run \in BOOLEAN, limpar_lotes \in BOOLEAN :
          IniciarComando(arq, dry_run, limpar_lotes)
    \/ ProcessarLinhaComando
    \/ ConcluirComando

SpecComando == InitComando /\ [][NextComando]_vars

----------------------------------------------------------------------------
(* views.py: UploadEstoqueView, UploadContagensView *)

allowed_extensions == {".xlsx", ".xls", ".csv"}

CelulasUnidadeId == {"", "1", "2", "x"}     \* request.data.get('unidade_negocio_id')
Extensoes == {".csv", ".exe"}

(* int(unidade_negocio_id): ValueError for text that is no integer         *)
Inteiro(c) == c \in {"1", "2"}
int(c) == IF c = "1" THEN 1 ELSE 2

(* post() of both views up to the call of the importer: the status of the  *)
(* response it returns, or 0 when the importer is called.  A ValueError of *)
(* int() leaves post() for a non-superuser and is caught by its last       *)
(* except for a superuser; the response is a 500 either way.               *)
antes_do_importador_404_primeiro(usr, file, uid, ext) ==
    IF ~file THEN 400
    ELSE IF uid = "" THEN 400
    ELSE IF ext \notin allowed_extensions THEN 400
    ELSE IF ~Inteiro(uid) THEN 500
    ELSE IF ~unidades[int(uid)].existe THEN 404
    ELSE IF ~is_superuser(usr) /\ ~tem_acesso_unidade(usr, int(uid)) THEN 403
    ELSE 0

antes_do_importador(usr, file, uid, ext) ==
    IF ~file THEN 400
    ELSE IF uid = "" THEN 400
    ELSE IF ext \notin allowed_extensions THEN 400
    ELSE IF ~Inteiro(uid) THEN 500
    ELSE IF ~is_superuser(usr) /\ ~tem_acesso_unidade(usr, int(uid)) THEN 403
    ELSE IF ~unidades[int(uid)].existe THEN 404
    ELSE 0

Pedido(t, usr, file, uid, ext, st) ==
    [feito |-> FALSE, op |-> "upload", vista |-> t, usuario |-> usr, file |-> file,
     unidade_negocio_id |-> uid, ext |-> ext, status |-> st,
     skus |-> skus, lotes |-> lotes]

UploadPendente == "op" \in DOMAIN ultimo /\ ultimo.op = "upload" /\ ultimo.status = 0

(* post(): the checks, and EstoqueImportService(int(unidade_negocio_id))   *)
UploadPost(t, usr, file, uid, ext) ==
    /\ Ocioso /\ ~UploadPendente
    /\ ultimo' = Pedido(t, usr, file, uid, ext, antes_do_importador(usr, file, uid, ext))
    /\ pc' = "idle"
    /\ UNCHANGED <<skus, lotes, configs, servico, tipo, arquivo, quadro, idx, resultado,
                   antes, anterior, outros>>

(* result = service.processar_grade_020502(file) / processar_contagens     *)
UploadImporta(arq) ==
    /\ UploadPendente /\ pc = "idle"
    /\ arq \in ArquivosDeUmaLinha(IF ultimo.vista = "grade" THEN LinhasGrade
                                  ELSE LinhasContagens)
    /\ IniciarImportacao(ultimo.vista, int(ultimo.unidade_negocio_id), arq)

UploadImportaInvalido(arq, falta) ==
    /\ UploadPendente /\ pc = "idle"
    /\ arq \in ArquivosDeUmaLinha(IF ultimo.vista = "grade" THEN LinhasGrade
                                  ELSE LinhasContagens)
    /\ ImportacaoArquivoInvalido(ultimo.vista, int(ultimo.unidade_negocio_id), arq, falta)

(* if result.get('success'): 200 else: 400                                 *)
UploadResponde ==
    /\ UploadPendente /\ pc = "done"
    /\ ultimo' = [ultimo EXCEPT !.status = IF resultado.success THEN 200 ELSE 400,
                                !.feito = TRUE]
    /\ UNCHANGED <<skus, lotes, configs, importacao, outros>>

(* Unit 1 exists; unit 2 exists or was never created.                      *)
InitUpload ==
    /\ comando = ComandoOcioso
    /\ unidades \in {[u \in Unidades |-> IF u = 1 THEN UnidadeRow ELSE r] :
                        r \in {NoUnidade, UnidadeRow}}
    /\ logs = <<>>
    /\ skus \in {[k \in ChavesSKU |-> IF k = <<1, "A">> THEN r ELSE NoSKU] :
                    r \in {NoSKU, SKURow}}
    /\ lotes = [x \in ChavesSKU \X NumerosLote |-> NoLote]
    /\ configs = <<>>
    /\ ultimo = [feito |-> FALSE]
    /\ SemImportacao

NextUpload ==
    \/ \E t \in {"grade", "contagens"}, usr \in Usuarios, file \in BOOLEAN,
          uid \in CelulasUnidadeId, ext \in Extensoes : UploadPost(t, usr, file, uid, ext)
    \/ \E arq \in ArquivosDeUmaLinha(LinhasGrade \cup LinhasContagens) : UploadImporta(arq)
    \/ \E arq \in ArquivosDeUmaLinha(LinhasGrade \cup LinhasContagens),
          falta \in ColunasGrade \cup ColunasContagens : UploadImportaInvalido(arq, falta)
    \/ ProcessarLinhaGrade
    \/ ProcessarLinhaContagens
    \/ ConcluirImportacao
    \/ UploadResponde

SpecUpload == InitUpload /\ [][NextUpload]_vars

----------------------------------------------------------------------------
(* Two calls of processar_contagens in progress at once (two requests, two *)
(* EstoqueImportService instances, one database).  The rows of the two     *)
(* calls interleave; each call keeps its own counters and position.        *)

(* The scheduler runs the other call: the local state of the running call  *)
(* is put aside and that of the other one resumed.                         *)
Alternar ==
    /\ suspensa' = [pc |-> pc, servico |-> servico, tipo |-> tipo, arquivo |-> arquivo,
                    quadro |-> quadro, idx |-> idx, resultado |-> resultado,
                    antes |-> antes, anterior |-> anterior]
    /\ pc' = suspensa.pc
    /\ servico' = suspensa.servico
    /\ tipo' = suspensa.tipo
    /\ arquivo' = suspensa.arquivo
    /\ quadro' = suspensa.quadro
    /\ idx' = suspensa.idx
    /\ resultado' = suspensa.resultado
    /\ antes' = suspensa.antes
    /\ anterior' = suspensa.anterior
    /\ UNCHANGED <<skus, lotes, configs, ultimo, unidades, logs, comando>>

(* SKU "A" of unit 1 absent, active or inactive; when it exists, with or   *)
(* without a lot dated as the files date their rows.                       *)
InitConcorrente ==
    /\ comando = ComandoOcioso
    /\ unidades = [u \in Unidades |-> UnidadeRow]
    /\ logs = <<>>
    /\ \E r \in {NoSKU, SKURow, [SKURow EXCEPT !.ativo = FALSE]}, tem \in BOOLEAN :
          /\ (tem => r.existe)
          /\ skus = [k \in ChavesSKU |-> IF k = <<1, "A">> THEN r ELSE NoSKU]
          /\ lotes = [x \in ChavesSKU \X NumerosLote |->
                        IF tem /\ x = <<<<1, "A">>, "L1">>
                        THEN [existe |-> TRUE, data_validade |-> DataImportada,
                              qtd_estoque |-> 0, ativo |-> TRUE]
                        ELSE NoLote]
    /\ configs = <<>>
    /\ ultimo = [feito |-> FALSE]
    /\ SemImportacao

NextConcorrente ==
    \/ \E u \in UnidadesAlvo, arq \in ArquivosDeUmaLinha(LinhasContagens) :
          IniciarImportacao("contagens", u, arq)
    \/ ProcessarLinhaContagens
    \/ ConcluirImportacao
    \/ Alternar

SpecConcorrente == InitConcorrente /\ [][NextConcorrente]_vars

----------------------------------------------------------------------------
(* Claims about SKU.get_status and the AlertConfig write path.  Each is    *)
(* stated on the stored rows and on the last call's result.                *)

EmEstoque(k, n) ==
    /\ lotes[<<k, n>>].existe
    /\ lotes[<<k, n>>].ativo
    /\ lotes[<<k, n>>].qtd_estoque > 0

SemEstoqueRes ==
    [status |-> "SEM_ESTOQUE", cor |-> "cinza", dias_restantes |-> SemDias, lote |-> SemLoteRes]

(* C1: a product with no lot that is both active and has quantity > 0 gets *)
(* SEM_ESTOQUE, grey, dias_restantes = None and lote = None, whatever      *)
(* configuration is passed or stored.                                      *)
C1_SemEstoque ==
    (ultimo.feito /\ \A n \in NumerosLote : ~EmEstoque(ultimo.sku, n))
        => ultimo.res = SemEstoqueRes

(* C1 witness: the call carried a config, a unit config is stored, and the *)
(* product holds an inactive lot and an empty one.                         *)
C1_Witness ==
    /\ ultimo.feito
    /\ ultimo.config.existe
    /\ \E i \in 1..Len(configs) : configs[i].unidade = ultimo.sku[1]
    /\ \E n, m \in NumerosLote :
          /\ lotes[<<ultimo.sku, n>>].existe /\ ~lotes[<<ultimo.sku, n>>].ativo
          /\ lotes[<<ultimo.sku, n>>].qtd_estoque > 0
          /\ lotes[<<ultimo.sku, m>>].existe /\ lotes[<<ultimo.sku, m>>].ativo
          /\ lotes[<<ultimo.sku, m>>].qtd_estoque = 0
    /\ ultimo.res = SemEstoqueRes

(* The thresholds the last call classified with.                           *)
LimiaresDoUltimo ==
    LET cfg == config_efetiva(ultimo.sku, ultimo.config)
    IN  <<dias_critico(cfg), dias_pre_bloqueio(cfg)>>

C3_Fronteira ==
    (/\ ultimo.feito
     /\ ultimo.res.lote # SemLoteRes
     /\ config_efetiva(ultimo.sku, ultimo.config).existe) =>
        LET d  == ultimo.res.dias_restantes
            dc == LimiaresDoUltimo[1]
        IN  /\ (d = dc) => ultimo.res.status = "CRITICO"
            /\ (d = dc + 1) => ultimo.res.status = "PRE_BLOQUEIO"

(* The rows of the chain, read off the table.                              *)
LinhasDaUnidade(u) == {i \in 1..Len(configs) : configs[i].unidade = u}
LinhasGlobais == {i \in 1..Len(configs) : configs[i].unidade = SemUnidade}
LinhasGlobaisAtivas == {i \in LinhasGlobais : configs[i].ativo}
Menor(S) == CHOOSE i \in S : \A j \in S : i <= j

StatusCom(d, dc, dp) ==
    IF d < 0 THEN "VENCIDO" ELSE IF d <= dc THEN "CRITICO"
    ELSE IF d <= dp THEN "PRE_BLOQUEIO" ELSE "OK"

(* C4, as claimed: caller's config, else the unit's row, else the global   *)
(* row (unit reference null), else 30/45.                                  *)
C4_Cadeia ==
    (ultimo.feito /\ ultimo.res.lote # SemLoteRes) =>
        LET d == ultimo.res.dias_restantes
            u == ultimo.sku[1]
        IN  IF ultimo.config.existe
            THEN ultimo.res.status = StatusCom(d, ultimo.config.dias_para_critico,
                                               ultimo.config.dias_para_pre_bloqueio)
            ELSE IF LinhasDaUnidade(u) # {}
            THEN \E i \in LinhasDaUnidade(u) :
                    ultimo.res.status = StatusCom(d, configs[i].dias_para_critico,
                                                  configs[i].dias_para_pre_bloqueio)
            ELSE IF LinhasGlobais # {}
            THEN \E i \in LinhasGlobais :
                    ultimo.res.status = StatusCom(d, configs[i].dias_para_critico,
                                                  configs[i].dias_para_pre_bloqueio)
            ELSE ultimo.res.status = StatusCom(d, 30, 45)

(* C4, amended: caller's config, else the unit's row (active or not), else *)
(* the active global row with the lowest id, else 30/45; a global row that *)
(* is not active is never used.                                            *)
C4_CadeiaAtiva ==
    (ultimo.feito /\ ultimo.res.lote # SemLoteRes) =>
        LET d == ultimo.res.dias_restantes
            u == ultimo.sku[1]
        IN  IF ultimo.config.existe
            THEN ultimo.res.status = StatusCom(d, ultimo.config.dias_para_critico,
                                               ultimo.config.dias_para_pre_bloqueio)
            ELSE IF LinhasDaUnidade(u) # {}
            THEN \E i \in LinhasDaUnidade(u) :
                    ultimo.res.status = StatusCom(d, configs[i].dias_para_critico,
                                                  configs[i].dias_para_pre_bloqueio)
            ELSE IF LinhasGlobaisAtivas # {}
            THEN ultimo.res.status =
                    StatusCom(d, configs[Menor(LinhasGlobaisAtivas)].dias_para_critico,
                              configs[Menor(LinhasGlobaisAtivas)].dias_para_pre_bloqueio)
            ELSE ultimo.res.status = StatusCom(d, 30, 45)

(* C4 witness: no config passed, no unit row, an inactive global row whose *)
(* thresholds would give OK, and the defaults give CRITICO.                *)
C4_Witness ==
    /\ ultimo.feito
    /\ ~ultimo.config.existe
    /\ LinhasDaUnidade(ultimo.sku[1]) = {}
    /\ LinhasGlobais # {}
    /\ LinhasGlobaisAtivas = {}
    /\ ultimo.res.dias_restantes = 3
    /\ ultimo.res.status = "CRITICO"

(* C5: the product is classified by its nearest lot only: the result's lot *)
(* is active, in stock and has the minimum date among such lots, and one   *)
(* expired lot among them makes the product VENCIDO.                       *)
C5_LoteMaisProximo ==
    (ultimo.feito /\ \E n \in NumerosLote : EmEstoque(ultimo.sku, n)) =>
        /\ ultimo.res.lote \in NumerosLote
        /\ EmEstoque(ultimo.sku, ultimo.res.lote)
        /\ \A m \in NumerosLote :
              EmEstoque(ultimo.sku, m) =>
                  lotes[<<ultimo.sku, ultimo.res.lote>>].data_validade
                      <= lotes[<<ultimo.sku, m>>].data_validade
        /\ ultimo.res.dias_restantes =
              lotes[<<ultimo.sku, ultimo.res.lote>>].data_validade - Hoje
        /\ (\E m \in NumerosLote :
                EmEstoque(ultimo.sku, m) /\ lotes[<<ultimo.sku, m>>].data_validade < Hoje)
              => ultimo.res.status = "VENCIDO"

(* C5 witness: one lot expired yesterday, the other 46 days away.          *)
C5_Witness ==
    /\ ultimo.feito
    /\ \E n, m \in NumerosLote :
          /\ EmEstoque(ultimo.sku, n) /\ lotes[<<ultimo.sku, n>>].data_validade = -1
          /\ EmEstoque(ultimo.sku, m) /\ lotes[<<ultimo.sku, m>>].data_validade = 46
    /\ ultimo.res.status = "VENCIDO"

(* C6, as claimed: every stored AlertConfig has critical_days below        *)
(* pre_block_days.                                                         *)
C6_CriticoMenorQuePreBloqueio ==
    \A i \in 1..Len(configs) :
        configs[i].dias_para_critico < configs[i].dias_para_pre_bloqueio

----------------------------------------------------------------------------
(* Claims about EstoqueImportService *)

Concluida == pc = "done" /\ "errors" \in DOMAIN resultado

Numerica(c) == c \in {"0", "1"}
CodigoPresente(r) == strip(r.codigo_sku) \notin {"", "nan"}

MalformadaGrade(r) ==
    \/ ~CodigoPresente(r)
    \/ ~Numerica(r.qtd_estoque)

TemSKUAtivo(r) ==
    /\ CodigoPresente(r)
    /\ antes.skus[<<servico.unidade_negocio, strip(r.codigo_sku)>>].existe
    /\ antes.skus[<<servico.unidade_negocio, strip(r.codigo_sku)>>].ativo

MalformadaContagens(r) == TemSKUAtivo(r) /\ _parse_date(r.data_validade) = DataNula
ValidaContagens(r) == TemSKUAtivo(r) /\ _parse_date(r.data_validade) # DataNula

UmaMalformada ==
    IF tipo = "grade"
    THEN Cardinality({i \in 1..Len(arquivo) : MalformadaGrade(arquivo[i])}) = 1
    ELSE /\ Cardinality({i \in 1..Len(arquivo) : MalformadaContagens(arquivo[i])}) = 1
         /\ Cardinality({i \in 1..Len(arquivo) : ValidaContagens(arquivo[i])})
               = Len(arquivo) - 1

(* C9: a file of N rows of which exactly one is malformed (grade: a        *)
(* quantity that is no number or a blank code; contagens: a date that does *)
(* not parse) and the rest are valid returns processed = N - 1, one entry  *)
(* in errors and warnings together, and success = TRUE.                    *)
C9_UmaLinhaMalformada ==
    (Concluida /\ UmaMalformada) =>
        /\ resultado.processed = Len(arquivo) - 1
        /\ Len(resultado.errors) + Len(resultado.warnings) = 1
        /\ resultado.success

C11_ColunaObrigatoriaAusente ==
    (/\ pc # "idle"
     /\ \/ "codigo_sku" \notin quadro.colunas
        \/ tipo = "grade" /\ "qtd_estoque" \notin quadro.colunas
        \/ tipo = "contagens" /\ "data_validade" \notin quadro.colunas) =>
        /\ pc = "done"
        /\ resultado.success = FALSE
        /\ resultado.processed = 0
        /\ "errors" \notin DOMAIN resultado
        /\ idx = 0
        /\ servico.processed_count = 0
        /\ skus = antes.skus
        /\ lotes = antes.lotes

C11_Witness ==
    /\ pc = "done"
    /\ tipo = "grade"
    /\ "qtd_estoque" \notin quadro.colunas
    /\ Len(arquivo) = 1
    /\ arquivo[1].codigo_sku = "A"
    /\ skus[<<servico.unidade_negocio, "A">>].existe


C13_FalhaDesfazTudo ==
    (pc = "done" /\ "errors" \notin DOMAIN resultado) =>
        /\ resultado.success = FALSE
        /\ resultado.processed = 0
        /\ skus = antes.skus
        /\ lotes = antes.lotes


----------------------------------------------------------------------------
(* Claims about UnidadeNegocio *)

(* C14: a UnidadeNegocio row is never removed: a unit that exists in one   *)
(* state exists in the next, whatever operation is taken.                  *)
C14_UnidadeNuncaExcluida ==
    [][\A u \in Unidades : unidades[u].existe => unidades'[u].existe]_vars


----------------------------------------------------------------------------
(* Claims about the read endpoints *)

TipoRegistrado(op) ==
    CASE op = "retrieve" -> "VALIDADE"
      [] op = "consulta_validade" -> "VALIDADE"
      [] op = "relatorio" -> "CRITICIDADE"
      [] op = "estoque" -> "ESTOQUE"
      [] OTHER -> "nenhum"

(* C15: LogConsulta only grows at its end: no step changes or removes a    *)
(* row; a query answered 200 by SKU retrieve, consulta_validade, the       *)
(* criticality report or the stock list appends exactly one row carrying   *)
(* the requesting user, and one answered 400, 403 or 404 appends none.     *)
C15_LogSoCresce ==
    [][/\ Len(logs') >= Len(logs)
       /\ SubSeq(logs', 1, Len(logs)) = logs
       /\ ("op" \in DOMAIN ultimo' /\ TipoRegistrado(ultimo'.op) # "nenhum") =>
             /\ ultimo'.status = 200 =>
                   logs' = Append(logs, [usuario |-> ultimo'.usuario,
                                         tipo_consulta |-> TipoRegistrado(ultimo'.op)])
             /\ ultimo'.status \in {400, 403, 404} => logs' = logs
      ]_vars

C15_Witness ==
    /\ Len(logs) = MaxLogs
    /\ logs[1].tipo_consulta = "ESTOQUE" /\ logs[1].usuario = "u1"
    /\ logs[MaxLogs].tipo_consulta = "CRITICIDADE" /\ logs[MaxLogs].usuario = "admin"
    /\ "op" \in DOMAIN ultimo /\ ultimo.op = "relatorio" /\ ultimo.status = 403

(* C16: the report splits the active SKUs of its scope by the status the   *)
(* view computes for them: bloqueados holds exactly those VENCIDO or       *)
(* CRITICO, pre_bloqueio exactly those PRE_BLOQUEIO, OK and SEM_ESTOQUE    *)
(* are in neither, none is in both, and the two totals are the sizes.      *)
C16_Particao ==
    ("op" \in DOMAIN ultimo /\ ultimo.op = "relatorio" /\ ultimo.status = 200) =>
        LET escopo == {k \in ChavesSKU :
                          /\ skus[k].existe /\ skus[k].ativo
                          /\ IF ultimo.unidade_id # Omitido
                             THEN k[1] = ultimo.unidade_id
                             ELSE /\ unidades[k[1]].existe /\ unidades[k[1]].ativo
                                  /\ (ultimo.usuario = "admin" \/ k[1] \in vinculos[ultimo.usuario])}
            st(k) == status_de(k, ultimo.config)
        IN  /\ ultimo.bloqueados = {k \in escopo : st(k) \in {"VENCIDO", "CRITICO"}}
            /\ ultimo.pre_bloqueio = {k \in escopo : st(k) = "PRE_BLOQUEIO"}
            /\ \A k \in escopo :
                   st(k) \in {"OK", "SEM_ESTOQUE"} =>
                       k \notin ultimo.bloqueados \cup ultimo.pre_bloqueio
            /\ ultimo.bloqueados \cap ultimo.pre_bloqueio = {}
            /\ ultimo.total_bloqueados = Cardinality(ultimo.bloqueados)
            /\ ultimo.total_pre_bloqueio = Cardinality(ultimo.pre_bloqueio)

C16_Witness ==
    /\ "op" \in DOMAIN ultimo /\ ultimo.op = "relatorio" /\ ultimo.status = 200
    /\ ultimo.unidade_id = Omitido
    /\ ultimo.total_bloqueados = 1
    /\ ultimo.total_pre_bloqueio = 1
    /\ \E k \in ultimo.bloqueados : status_de(k, ultimo.config) = "CRITICO"

(* C24: in a report, every item of bloqueados is serialized with status    *)
(* VENCIDO or CRITICO and every item of pre_bloqueio with PRE_BLOQUEIO.    *)
C24_StatusSerializado ==
    ("op" \in DOMAIN ultimo /\ ultimo.op = "relatorio" /\ ultimo.status = 200) =>
        /\ \A k \in ultimo.bloqueados : ultimo.serializado[k] \in {"VENCIDO", "CRITICO"}
        /\ \A k \in ultimo.pre_bloqueio : ultimo.serializado[k] = "PRE_BLOQUEIO"

----------------------------------------------------------------------------
(* Claims about the importar_estoque command *)

(* C17: when a run with --limpar-lotes and without --dry-run has finished,  *)
(* every SKU the file touched holds only lots that a row of the file        *)
(* carries: the lots it had before the run have been removed.               *)
C17_LimparLotes ==
    (comando.pc = "done" /\ comando.limpar_lotes /\ ~comando.dry_run) =>
        \A k \in comando.tocados : \A n \in NumerosLote :
            lotes[<<k, n>>].existe =>
                \E i \in 1..Len(comando.arquivo) :
                    /\ comando.arquivo[i].lote = n
                    /\ comando.arquivo[i].sku = k[2]
                    /\ comando.arquivo[i].cod_unb = codigo_unb(k[1])

----------------------------------------------------------------------------
(* Claims about the rows of processar_contagens and processar_grade_020502 *)

(* A contagens row is about to be handled whose code names an active SKU   *)
(* of the unit and whose date parses.                                      *)
LinhaDeContagemValida ==
    /\ pc = "rows" /\ tipo = "contagens" /\ idx < Len(arquivo)
    /\ strip(arquivo[idx + 1].codigo_sku) \in Codigos
    /\ sku_ativo_da_unidade(servico.unidade_negocio, strip(arquivo[idx + 1].codigo_sku))
    /\ _parse_date(arquivo[idx + 1].data_validade) # DataNula

LotesNaData(L, k, d) ==
    {n \in NumerosLote : L[<<k, n>>].existe /\ L[<<k, n>>].data_validade = d}

(* C18: a contagens row for an active SKU with a valid date leaves exactly *)
(* one lot of that SKU with that date; when such a lot existed the row     *)
(* counts as updated, otherwise as created.                                *)
C18_UpsertPorData ==
    [][LinhaDeContagemValida =>
          LET k == <<servico.unidade_negocio, strip(arquivo[idx + 1].codigo_sku)>>
              d == _parse_date(arquivo[idx + 1].data_validade)
          IN  /\ Cardinality(LotesNaData(lotes', k, d)) = 1
              /\ IF LotesNaData(lotes, k, d) # {}
                 THEN /\ servico'.updated_count = servico.updated_count + 1
                      /\ servico'.created_count = servico.created_count
                 ELSE /\ servico'.created_count = servico.created_count + 1
                      /\ servico'.updated_count = servico.updated_count
      ]_vars

Fatores == 1..2

(* C19: a contagens row for an active SKU with a valid date is processed   *)
(* and writes the lot numbered 'VAL_' + date, whose quantity is boxes      *)
(* times the conversion factor of the SKU plus units, blank or non-numeric *)
(* counts taken as 0.                                                      *)
C19_QuantidadeTotal ==
    [][LinhaDeContagemValida =>
          LET row == arquivo[idx + 1]
              k == <<servico.unidade_negocio, strip(row.codigo_sku)>>
              n == numero_lote_val(_parse_date(row.data_validade))
          IN  /\ servico'.processed_count = servico.processed_count + 1
              /\ lotes'[<<k, n>>].existe
              /\ \E f \in Fatores :
                    lotes'[<<k, n>>].qtd_estoque =
                        to_numeric_fillna(row.qtd_caixas, 0) * f
                        + to_numeric_fillna(row.qtd_unidades, 0)
      ]_vars

CodigoEmBranco(c) == c \in {"", " ", "nan"}

Rastros(srv) == <<srv.processed_count, Len(srv.errors), Len(srv.warnings)>>

C21_CelulasInvalidas ==
    [][(pc = "rows" /\ idx < Len(arquivo) /\ idx' = idx + 1) =>
          LET row == arquivo[idx + 1]
          IN  /\ (tipo = "grade" /\ ~CodigoEmBranco(row.codigo_sku)
                  /\ ~Numerica(row.qtd_estoque)) =>
                     /\ servico'.processed_count = servico.processed_count + 1
                     /\ servico'.errors = servico.errors
              /\ (tipo = "contagens" /\ strip(row.codigo_sku) \in Codigos
                  /\ sku_ativo_da_unidade(servico.unidade_negocio, strip(row.codigo_sku))
                  /\ _parse_date(row.data_validade) = DataNula) =>
                     /\ Len(servico'.warnings) = Len(servico.warnings) + 1
                     /\ servico'.errors = servico.errors
                     /\ servico'.processed_count = servico.processed_count
      ]_vars

----------------------------------------------------------------------------
(* Claims about the upload views *)

UploadRespondido == "op" \in DOMAIN ultimo /\ ultimo.op = "upload" /\ ultimo.status # 0

(* C22: an upload answers 400 for a missing file, a missing unit id or a   *)
(* disallowed extension; else 403 for a non-superuser without access to    *)
(* the unit; else 404 for a unit that does not exist; else 200 when the    *)
(* import result has success = TRUE and 400 when it has not; 500 for an    *)
(* exception (a unit id that is no integer).  A 400, 403 or 404 answered   *)
(* before the importer ran leaves the SKU and lot tables as they were.     *)
C22_OrdemDasRespostas ==
    UploadRespondido =>
        LET r == ultimo
            u == int(r.unidade_negocio_id)
        IN  /\ IF ~r.file \/ r.unidade_negocio_id = "" \/ r.ext \notin {".xlsx", ".xls", ".csv"}
               THEN r.status = 400
               ELSE IF ~Inteiro(r.unidade_negocio_id)
               THEN r.status = 500
               ELSE IF r.usuario # "admin"
                       /\ ~(u \in vinculos[r.usuario] /\ unidades[u].existe /\ unidades[u].ativo)
               THEN r.status = 403
               ELSE IF ~unidades[u].existe
               THEN r.status = 404
               ELSE /\ r.feito
                    /\ r.status = IF resultado.success THEN 200 ELSE 400
            /\ ~r.feito => (r.status \in {400, 403, 404, 500}
                            /\ skus = r.skus /\ lotes = r.lotes)

(* The member of unit 1 uploaded a one-row contagens file to it; the row   *)
(* gave a warning, the result has success = TRUE, the answer is 200.       *)
C22_Witness ==
    /\ UploadRespondido /\ ultimo.feito
    /\ ultimo.usuario = "u1" /\ ultimo.status = 200
    /\ Len(arquivo) = 1 /\ Len(resultado.warnings) = 1

----------------------------------------------------------------------------
(* Claims about concurrent imports *)

LinhaParaA(arq) ==
    /\ Len(arq) = 1 /\ strip(arq[1].codigo_sku) = "A"
    /\ _parse_date(arq[1].data_validade) = DataImportada

(* C23: when two contagens calls that each carry a row for SKU "A" of unit *)
(* 1 and the same date have both returned, the SKU (active) holds exactly  *)
(* one lot with that date, and its quantity is the one a row computes.     *)
C23_UmLotePorData ==
    (/\ pc = "done" /\ suspensa.pc = "done"
     /\ tipo = "contagens" /\ suspensa.tipo = "contagens"
     /\ LinhaParaA(arquivo) /\ LinhaParaA(suspensa.arquivo)
     /\ sku_ativo_da_unidade(1, "A")) =>
        LET L == LotesNaData(lotes, <<1, "A">>, DataImportada)
        IN  /\ Cardinality(L) = 1
            /\ \A n \in L : \E f \in Fatores :
                  lotes[<<<<1, "A">>, n>>].qtd_estoque =
                      to_numeric_fillna(arquivo[1].qtd_caixas, 0) * f
                      + to_numeric_fillna(arquivo[1].qtd_unidades, 0)

----------------------------------------------------------------------------
(* Claims about the counters and the writes of the importers *)

(* C25: a result built after the row loop has processed = created +        *)
(* updated.                                                                *)
C25_ProcessadoIgualSoma ==
    Concluida => resultado.processed = resultado.created + resultado.updated

(* C26: a grade row that adds an entry to errors leaves the SKU and lot    *)
(* tables as they were before the row, and a grade call whose result has   *)
(* success = FALSE leaves them as they were before the call.               *)
C26_LinhaTudoOuNada ==
    [][/\ (pc = "rows" /\ tipo = "grade" /\ idx' = idx + 1
           /\ Len(servico'.errors) > Len(servico.errors)) =>
              (skus' = skus /\ lotes' = lotes)
       /\ (pc = "rows" /\ pc' = "done" /\ tipo = "grade" /\ ~resultado'.success) =>
              (skus' = antes.skus /\ lotes' = antes.lotes)
      ]_vars

----------------------------------------------------------------------------
(* More claims about the importar_estoque command *)

LinhaValida(row) ==
    /\ row.cod_unb \in comando.unidades_cache
    /\ ~_parse_data(row.validade).erro
    /\ ~_parse_quantidade(row.qtd).erro /\ _parse_quantidade(row.qtd).qtd >= 0

LinhasComErro == {comando.resultado.erros[i] : i \in 1..Len(comando.resultado.erros)}

(* C27: when a run without --dry-run has finished, every valid row was     *)
(* imported whatever the rows before it did, the SKU of every valid row    *)
(* exists, and skus_criados + skus_atualizados is the number of (unit,     *)
(* code) pairs of the run whose SKU is in the store.                       *)
C27_LinhasIndependentes ==
    (comando.pc = "done" /\ ~comando.dry_run) =>
        /\ \A i \in 1..Len(comando.arquivo) :
              LinhaValida(comando.arquivo[i]) =>
                  /\ (i + 1) \notin LinhasComErro
                  /\ skus[<<1, comando.arquivo[i].sku>>].existe
        /\ comando.resultado.skus_criados + comando.resultado.skus_atualizados
              = Cardinality({c \in comando.skus_processados : skus[<<1, c[2]>>].existe})

----------------------------------------------------------------------------
(* Claims about the unit an import is bound to *)

DeOutraUnidade(u) == {k \in ChavesSKU : k[1] # u}

(* C28: no step of an import for unit U changes a SKU or a lot of another  *)
(* unit, and a SKU that a step creates belongs to U; when the call         *)
(* returns, the rows of the other units are the ones it started from.      *)
C28_SoAUnidadeDoServico ==
    [][(pc = "rows") =>
          LET u == servico.unidade_negocio
          IN  /\ \A k \in DeOutraUnidade(u) :
                    /\ skus'[k] = skus[k]
                    /\ \A n \in NumerosLote : lotes'[<<k, n>>] = lotes[<<k, n>>]
              /\ \A k \in ChavesSKU : (~skus[k].existe /\ skus'[k].existe) => k[1] = u
              /\ pc' = "done" =>
                    \A k \in DeOutraUnidade(u) :
                        /\ skus'[k] = antes.skus[k]
                        /\ \A n \in NumerosLote : lotes'[<<k, n>>] = antes.lotes[<<k, n>>]
      ]_vars

(* A grade call for unit 1 has returned; it changed SKU "A" of unit 1, and *)
(* unit 2 holds a SKU with the same code.                                  *)
C28_Witness ==
    /\ pc = "done" /\ tipo = "grade" /\ servico.unidade_negocio = 1
    /\ skus[<<1, "A">>] # antes.skus[<<1, "A">>]
    /\ skus[<<2, "A">>].existe
    /\ skus[<<2, "A">>] = antes.skus[<<2, "A">>]

----------------------------------------------------------------------------
(* Claims about what the read endpoints return *)

DevolveSKUs ==
    /\ "op" \in DOMAIN ultimo
    /\ ultimo.op \in {"list", "consulta_validade", "estoque", "relatorio"}
    /\ ultimo.status = 200

Devolvidos ==
    IF ultimo.op = "relatorio" THEN ultimo.bloqueados \cup ultimo.pre_bloqueio
    ELSE ultimo.itens

(* C29: every SKU that the SKU list, the search, the stock list or the     *)
(* criticality report returns to a user who is no superuser belongs to an  *)
(* active unit the user is a member of, whatever search or unit the        *)
(* request names; a request naming another unit returns no SKU of it.      *)
C29_SoUnidadesDoUsuario ==
    (DevolveSKUs /\ ultimo.usuario # "admin") =>
        /\ \A k \in Devolvidos :
              /\ k[1] \in vinculos[ultimo.usuario]
              /\ unidades[k[1]].existe /\ unidades[k[1]].ativo
        /\ (ultimo.unidade_id # Omitido /\ ultimo.unidade_id \notin vinculos[ultimo.usuario]) =>
              Devolvidos = {}

(* The member of unit 1 listed the stock without naming a unit and got the *)
(* SKU of unit 1 only, while unit 2 is active and holds an active SKU.     *)
C29_Witness ==
    /\ DevolveSKUs /\ ultimo.usuario = "u1" /\ ultimo.op = "estoque"
    /\ ultimo.unidade_id = Omitido
    /\ Devolvidos = {<<1, "A">>}
    /\ unidades[2].existe /\ unidades[2].ativo
    /\ skus[<<2, "A">>].existe /\ skus[<<2, "A">>].ativo

----------------------------------------------------------------------------
(* Claims about get_status over the stores the importers leave *)

CincoStatus == {"SEM_ESTOQUE", "VENCIDO", "CRITICO", "PRE_BLOQUEIO", "OK"}

====
